---- MODULE Spec2Model ----
(***************************************************************************)
(* Codebase Genius: the docs generator (BE/gen_docs.py), its bridge        *)
(* (BE/gen_bridge.py), the atomic(ish) writer (BE/py/simple_fs.py) and the *)
(* call-graph builder (BE/py/parser.py).                                   *)
(*                                                                         *)
(* Strings are sequences of one-character strings, so that suffix, stem,   *)
(* startswith, the slug substitution and the line regexes are computed on  *)
(* characters as the Python code computes them.  A path is the sequence of *)
(* its names from the filesystem root.                                     *)
(***************************************************************************)
EXTENDS Integers, Sequences, FiniteSets, TLC

VARIABLES
    fileset,     \* regular files of the filesystem (absolute paths)
    dirset,      \* directories that exist besides the ancestors of files
    denied,      \* directories whose listing fails (no read permission)
    ftext,       \* file path -> its text, a sequence of lines
    unreadable,  \* files whose read raises (permission denied)
    pc,          \* position of the running call
    root,        \* the scan root: gen_docs.main's local `root`, made absolute
    buckets,     \* find_by_lang's result: language -> sorted list of paths
    entry,       \* which entry point runs: "main" or "run_gen"
    argv,        \* sys.argv[1:]
    root_arg,    \* run_gen's parameter `root`
    cwd,         \* the process working directory
    cwd0,        \* the working directory when the entry point was called
    saved_cwd,   \* run_gen's local `cwd`
    root_path,   \* run_gen's local `root_path`
    readme_line, \* main's local `readme_line`
    py_edges,    \* main's local `py_edges`
    js_edges,    \* main's local `js_edges`
    result,      \* what run_gen returned
    error,       \* the step whose exception ended the call, "" when none
    docs,        \* output file path -> [exists, data]: the files being written
    docs0,       \* docs as it was when the running call started
    w_path,      \* the path the running call writes to
    w_lines,     \* the content the running call writes
    written,     \* how many lines of w_lines have reached the open file
    observed,    \* what a concurrent reader last read at w_path
    calls,       \* how many write_text calls have been made
    g_nodes,     \* build_ccg's graph: the nodes with their attributes
    g_edges,     \* build_ccg's graph: the edges
    meta,        \* build_ccg's counters
    todo         \* the files rglob has not yielded yet

envVars == <<fileset, dirset, denied, ftext, unreadable>>
ccgVars == <<g_nodes, g_edges, meta, todo>>
scanVars == <<root, buckets>>
genVars == <<entry, argv, root_arg, cwd, cwd0, saved_cwd, root_path, readme_line,
             py_edges, js_edges, result>>
ioVars == <<docs, docs0, w_path, w_lines, written, observed, calls>>
vars == <<envVars, ccgVars, pc, scanVars, genVars, error, ioVars>>

---------------------------------------------------------------------------
(* Characters and strings *)

\* Chr[i] is the ASCII character with code i + 31 (the double quote, the
\* backslash and the backtick are written DQUOTE, BSLASH and BTICK)
Chr == <<" ","!","DQUOTE","#","$","%","&","'","(",")","*","+",",","-",".","/","0","1","2","3","4","5","6","7","8","9",":",";","<","=",">","?","@","A","B","C","D","E","F","G","H","I","J","K","L","M","N","O","P","Q","R","S","T","U","V","W","X","Y","Z","[","BSLASH","]","^","_","BTICK","a","b","c","d","e","f","g","h","i","j","k","l","m","n","o","p","q","r","s","t","u","v","w","x","y","z","{","|","}","~">>

CharSet == {Chr[i] : i \in 1..Len(Chr)}

ord == [c \in CharSet |-> 31 + (CHOOSE i \in 1..Len(Chr) : Chr[i] = c)]

isdigit(c) == ord[c] \in 48..57
isupper(c) == ord[c] \in 65..90
islower(c) == ord[c] \in 97..122
\* the class [A-Za-z0-9]
isalnum(c) == isdigit(c) \/ isupper(c) \/ islower(c)
\* the class \w on ASCII text
isword(c) == isalnum(c) \/ c = "_"
\* the class \s on the characters a line can hold
isspace(c) == c = " "

lower_char(c) == IF isupper(c) THEN Chr[ord[c] + 1] ELSE c

\* str.lower()
lower(s) == [i \in 1..Len(s) |-> lower_char(s[i])]

\* str.startswith(prefix)
startswith(s, prefix) ==
    /\ Len(prefix) <= Len(s)
    /\ SubSeq(s, 1, Len(prefix)) = prefix

\* str.rfind(c), 1-based; 0 when c does not occur
rfind(s, c) ==
    IF \E i \in 1..Len(s) : s[i] = c
    THEN CHOOSE i \in 1..Len(s) : s[i] = c /\ \A j \in (i+1)..Len(s) : s[j] # c
    ELSE 0

\* Python's str < str: lexicographic by code point
StrLess(a, b) ==
    \E k \in 1..(Len(b)) :
        /\ k <= Len(a) + 1
        /\ \A j \in 1..(k-1) : a[j] = b[j]
        /\ (k = Len(a) + 1 \/ ord[a[k]] < ord[b[k]])

---------------------------------------------------------------------------
(* pathlib: names, suffix, stem, ordering *)

\* PurePath.suffix of a final component
suffix(name) ==
    LET i == rfind(name, ".")
    IN  IF 1 < i /\ i < Len(name) THEN SubSeq(name, i, Len(name)) ELSE <<>>

\* PurePath.stem of a final component
stem(name) ==
    LET i == rfind(name, ".")
    IN  IF 1 < i /\ i < Len(name) THEN SubSeq(name, 1, i - 1) ELSE name

\* the final component of a path
basename(p) == p[Len(p)]

\* PurePath.__lt__: the parts compared as a list of strings
PathLess(p, q) ==
    \E k \in 1..(Len(q)) :
        /\ k <= Len(p) + 1
        /\ \A j \in 1..(k-1) : p[j] = q[j]
        /\ (k = Len(p) + 1 \/ StrLess(p[k], q[k]))

RECURSIVE SortPaths(_)
\* sorted(S) for a set of paths
SortPaths(S) ==
    IF S = {} THEN <<>>
    ELSE LET m == CHOOSE p \in S : \A q \in S \ {p} : PathLess(p, q)
         IN  <<m>> \o SortPaths(S \ {m})

IsPrefix(d, p) == Len(d) <= Len(p) /\ SubSeq(p, 1, Len(d)) = d

\* path.relative_to(root), defined when root is a prefix of path
relative_to(p, r) == SubSeq(p, Len(r) + 1, Len(p))

---------------------------------------------------------------------------
(* The filesystem tree *)

\* the proper ancestors of a path, the filesystem root <<>> included
Ancestors(p) == {SubSeq(p, 1, k) : k \in 0..(Len(p) - 1)}

\* every directory that exists
Dirs == dirset \cup UNION {Ancestors(p) : p \in fileset \cup dirset}

\* names of the subdirectories of d
subdirs(d) == {x[Len(d) + 1] : x \in {y \in Dirs : IsPrefix(d, y) /\ Len(y) = Len(d) + 1}}

\* names of the regular files directly in d
filesin(d) == {x[Len(d) + 1] : x \in {y \in fileset : IsPrefix(d, y) /\ Len(y) = Len(d) + 1}}

---------------------------------------------------------------------------
(* gen_docs.py: IGNORES, LANG_EXTS, walk_files, find_by_lang *)

IGNORES == {
    <<".","g","i","t">>, <<".","h","g">>, <<".","s","v","n">>, <<".","i","d","e","a">>, <<".","v","s","c","o","d","e">>, <<".","v","e","n","v">>, <<"v","e","n","v">>,
    <<"_","_","p","y","c","a","c","h","e","_","_">>, <<"n","o","d","e","_","m","o","d","u","l","e","s">>, <<"d","i","s","t">>, <<"b","u","i","l","d">>, <<".","p","y","t","e","s","t","_","c","a","c","h","e">>,
    <<".","m","y","p","y","_","c","a","c","h","e">>, <<".","r","u","f","f","_","c","a","c","h","e">>, <<".","t","o","x">>, <<".","c","a","c","h","e">>, <<"t","a","r","g","e","t">>, <<"o","u","t">>, <<"b","i","n">> }

LangOrder == <<"Python", "JavaScript/TypeScript", "Java", "Go", "Rust", "C/C++">>

Langs == {LangOrder[i] : i \in 1..Len(LangOrder)}

LANG_EXTS ==
    [lang \in Langs |->
        CASE lang = "Python" -> {<<".","p","y">>}
          [] lang = "JavaScript/TypeScript" ->
                {<<".","j","s">>, <<".","m","j","s">>, <<".","c","j","s">>, <<".","j","s","x">>, <<".","t","s">>, <<".","t","s","x">>}
          [] lang = "Java" -> {<<".","j","a","v","a">>}
          [] lang = "Go" -> {<<".","g","o">>}
          [] lang = "Rust" -> {<<".","r","s">>}
          [] lang = "C/C++" ->
                {<<".","c">>, <<".","h">>, <<".","c","c">>, <<".","c","p","p">>, <<".","h","p","p">>, <<".","c","x","x">>, <<".","h","x","x">>}]

\* keep_dir without the test for a leading dot
keep_dir_ignores_only(x) == x \notin IGNORES

\* the comprehension that prunes os.walk's dirs in place
keep_dir(x) == x \notin IGNORES /\ ~startswith(x, <<".">>)

RECURSIVE walk_from(_)
\* os.walk below one directory: a listing that fails is skipped silently
walk_from(d) ==
    IF d \notin Dirs \/ d \in denied THEN {}
    ELSE {d \o <<f>> : f \in filesin(d)}
         \cup UNION {walk_from(d \o <<x>>) : x \in {y \in subdirs(d) : keep_dir(y)}}

\* walk_files(root): the set of paths yielded
walk_files(r) == walk_from(r)

\* the language whose extensions hold the suffix, first match in table order
lang_of(p) ==
    LET s == lower(suffix(basename(p)))
        hits == {i \in 1..Len(LangOrder) : s \in LANG_EXTS[LangOrder[i]]}
    IN  IF hits = {} THEN "none"
        ELSE LangOrder[CHOOSE i \in hits : \A j \in hits : i <= j]

find_by_lang(r) ==
    [lang \in Langs |-> SortPaths({p \in walk_files(r) : lang_of(p) = lang})]

EmptyBuckets == [lang \in Langs |-> <<>>]

---------------------------------------------------------------------------
(* Regular-expression pieces, computed on the characters of one line *)

\* the character classes as sets
Spaces == {c \in CharSet : isspace(c)}
WordChars == {c \in CharSet : isword(c)}
NonAlnum == {c \in CharSet : ~isalnum(c)}

\* the index after the longest run of characters of class C that starts at i
span_end(C, s, i) ==
    CHOOSE k \in i..(Len(s) + 1) :
        /\ \A j \in i..(k - 1) : s[j] \in C
        /\ (k = Len(s) + 1 \/ s[k] \notin C)

\* whether the literal lit stands at index i of s
has_at(s, i, lit) ==
    /\ i + Len(lit) - 1 <= Len(s)
    /\ SubSeq(s, i, i + Len(lit) - 1) = lit

\* str.strip()
strip(s) ==
    LET a == span_end(Spaces, s, 1)
        ends == {e \in a..Len(s) : ~isspace(s[e])}
    IN  IF ends = {} THEN <<>>
        ELSE SubSeq(s, a, CHOOSE e \in ends : \A x \in ends : x <= e)

\* str.split(".")[0]
split_head(s) ==
    LET dots == {i \in 1..Len(s) : s[i] = "."}
    IN  IF dots = {} THEN s
        ELSE SubSeq(s, 1, (CHOOSE i \in dots : \A j \in dots : i <= j) - 1)

NoMatch == [ok |-> FALSE, g |-> <<>>]

\* the class [A-Za-z0-9_\.]
ismodchar(c) == isalnum(c) \/ c = "_" \/ c = "."
ModChars == {c \in CharSet : ismodchar(c)}

\* imp_re1 = ^\s*import\s+([A-Za-z0-9_\.]+), matched at the start of the line
imp_re1(line) ==
    LET a == span_end(Spaces, line, 1)
        b == a + 6
        c == span_end(Spaces, line, b)
        e == span_end(ModChars, line, c)
    IN  IF has_at(line, a, <<"i","m","p","o","r","t">>) /\ c > b /\ e > c
        THEN [ok |-> TRUE, g |-> SubSeq(line, c, e - 1)]
        ELSE NoMatch

\* imp_re2 = ^\s*from\s+([A-Za-z0-9_\.]+)\s+import\s+
imp_re2(line) ==
    LET a == span_end(Spaces, line, 1)
        b == a + 4
        c == span_end(Spaces, line, b)
        e == span_end(ModChars, line, c)
        f == span_end(Spaces, line, e)
        h == f + 6
    IN  IF /\ has_at(line, a, <<"f","r","o","m">>) /\ c > b /\ e > c /\ f > e
           /\ has_at(line, f, <<"i","m","p","o","r","t">>)
           /\ span_end(Spaces, line, h) > h
        THEN [ok |-> TRUE, g |-> SubSeq(line, c, e - 1)]
        ELSE NoMatch

\* the class ["\']
isquote(c) == c \in {"'", "DQUOTE"}

\* (.+?)["\'] after the opening quote at q, followed by ")" when paren:
\* the last index of the shortest capture, 0 when there is none
cap_end(line, q, paren) ==
    LET ends == {e \in (q + 1)..(Len(line) - 1) :
                    /\ isquote(line[e + 1])
                    /\ (paren => (e + 2 <= Len(line) /\ line[e + 2] = ")"))}
    IN  IF ends = {} THEN 0 ELSE CHOOSE e \in ends : \A x \in ends : e <= x

\* import_re = ^\s*import\s+.*?from\s+["\'](.+?)["\'], matched at the start
import_re(line) ==
    LET a == span_end(Spaces, line, 1)
        b == a + 6
        quote_at(j) == span_end(Spaces, line, j + 4)
        starts == {j \in (b + 1)..Len(line) :
                      /\ has_at(line, j, <<"f","r","o","m">>)
                      /\ quote_at(j) > j + 4
                      /\ quote_at(j) <= Len(line)
                      /\ isquote(line[quote_at(j)])
                      /\ cap_end(line, quote_at(j), FALSE) # 0}
        j0 == CHOOSE j \in starts : \A x \in starts : j <= x
    IN  IF has_at(line, a, <<"i","m","p","o","r","t">>) /\ b <= Len(line) /\ isspace(line[b])
           /\ starts # {}
        THEN [ok |-> TRUE,
              g |-> SubSeq(line, quote_at(j0) + 1, cap_end(line, quote_at(j0), FALSE))]
        ELSE NoMatch

\* require_re = require\(["\'](.+?)["\']\), searched anywhere in the line
require_re(line) ==
    LET starts == {s \in 1..Len(line) :
                      /\ has_at(line, s, <<"r","e","q","u","i","r","e","(">>)
                      /\ s + 8 <= Len(line)
                      /\ isquote(line[s + 8])
                      /\ cap_end(line, s + 8, TRUE) # 0}
        s0 == CHOOSE s \in starts : \A x \in starts : s <= x
    IN  IF starts # {}
        THEN [ok |-> TRUE, g |-> SubSeq(line, s0 + 9, cap_end(line, s0 + 8, TRUE))]
        ELSE NoMatch

\* a or b for two match results
or_match(a, b) == IF a.ok THEN a ELSE b

RECURSIVE split_slash(_)
\* str.split("/")
split_slash(s) ==
    LET cuts == {i \in 1..Len(s) : s[i] = "/"}
        i0 == CHOOSE i \in cuts : \A j \in cuts : i <= j
    IN  IF cuts = {} THEN <<s>>
        ELSE <<SubSeq(s, 1, i0 - 1)>> \o split_slash(SubSeq(s, i0 + 1, Len(s)))

\* Path(target).stem: pathlib drops the empty and the "." components
path_stem(target) ==
    LET parts == SelectSeq(split_slash(target), LAMBDA x : x # <<>> /\ x # <<".">>)
    IN  IF parts = <<>> THEN <<>> ELSE stem(parts[Len(parts)])

---------------------------------------------------------------------------
(* gen_docs.py: README_FILES, read_readme *)

README_FILES == <<<<"R","E","A","D","M","E",".","m","d">>, <<"R","e","a","d","m","e",".","m","d">>, <<"r","e","a","d","m","e",".","m","d">>, <<"R","E","A","D","M","E">>, <<"R","E","A","D","M","E",".","r","s","t">>>>

None == <<"<None>">>

\* Path.exists()
exists(f) == f \in fileset \/ f \in Dirs

\* Path.read_text raises for a directory and for a file that cannot be opened
read_raises(f) == f \notin fileset \/ f \in unreadable

\* re.sub(r"^#+\s*", "", clean)
strip_hashes(clean) ==
    LET a == span_end({"#"}, clean, 1)
        b == span_end(Spaces, clean, a)
    IN  IF a > 1 THEN SubSeq(clean, b, Len(clean)) ELSE clean

\* the first line of txt that is not blank, stripped; None when all are blank
first_nonblank(txt) ==
    LET hits == {i \in 1..Len(txt) : strip(txt[i]) # <<>>}
    IN  IF hits = {} THEN None
        ELSE strip(txt[CHOOSE i \in hits : \A j \in hits : i <= j])

RECURSIVE readme_from(_, _)
\* the loop over README_FILES from candidate k on
readme_from(r, k) ==
    IF k > Len(README_FILES) THEN [raised |-> FALSE, value |-> None]
    ELSE LET f == r \o <<README_FILES[k]>>
         IN  IF ~exists(f) THEN readme_from(r, k + 1)
             ELSE IF read_raises(f) THEN [raised |-> TRUE, value |-> None]
             ELSE IF first_nonblank(ftext[f]) # None
                  THEN [raised |-> FALSE, value |-> strip_hashes(first_nonblank(ftext[f]))]
                  ELSE readme_from(r, k + 1)

read_readme(r) == readme_from(r, 1)

---------------------------------------------------------------------------
(* gen_docs.py: slug_for_mermaid, py_import_edges, js_import_edges *)

RECURSIVE join_slash(_)
\* PurePath.as_posix() of a relative path
join_slash(parts) ==
    IF parts = <<>> THEN <<>>
    ELSE IF Len(parts) = 1 THEN parts[1]
    ELSE parts[1] \o <<"/">> \o join_slash(Tail(parts))

RECURSIVE sub_nonalnum(_)
\* re.sub(r"[^A-Za-z0-9]+", "_", s)
sub_nonalnum(s) ==
    IF s = <<>> THEN <<>>
    ELSE IF isalnum(s[1]) THEN <<s[1]>> \o sub_nonalnum(Tail(s))
    ELSE <<"_">> \o sub_nonalnum(SubSeq(s, span_end(NonAlnum, s, 1), Len(s)))

\* str.strip("_")
strip_underscores(s) ==
    LET a == span_end({"_"}, s, 1)
        ends == {e \in a..Len(s) : s[e] # "_"}
    IN  IF ends = {} THEN <<>>
        ELSE SubSeq(s, a, CHOOSE e \in ends : \A x \in ends : x <= e)

slug_for_mermaid(path, r) ==
    strip_underscores(sub_nonalnum(join_slash(relative_to(path, r))))

\* the dict {p.stem: p for p in files}: a later file replaces an earlier one
stem_keys(files) == {stem(basename(files[i])) : i \in 1..Len(files)}

stem_lookup(files, key) ==
    files[CHOOSE i \in 1..Len(files) :
            /\ stem(basename(files[i])) = key
            /\ \A j \in (i + 1)..Len(files) : stem(basename(files[j])) # key]

\* sorted() on (str, str) tuples
EdgeLess(a, b) == StrLess(a[1], b[1]) \/ (a[1] = b[1] /\ StrLess(a[2], b[2]))

RECURSIVE SortEdges(_)
SortEdges(S) ==
    IF S = {} THEN <<>>
    ELSE LET m == CHOOSE a \in S : \A b \in S \ {a} : EdgeLess(a, b)
         IN  <<m>> \o SortEdges(S \ {m})

\* read_ok without the try/except around read_text
read_ok_unguarded(files) == {files[i] : i \in 1..Len(files)}

\* the files of the list whose text the loop gets to read
read_ok(files) == {files[i] : i \in 1..Len(files)} \ unreadable

\* the edges one Python file adds
py_file_edges(p, files, r) ==
    {<<slug_for_mermaid(p, r), slug_for_mermaid(stem_lookup(files, mod), r)>> :
        mod \in {m \in {split_head(or_match(imp_re1(ftext[p][l]), imp_re2(ftext[p][l])).g) :
                          l \in {x \in 1..Len(ftext[p]) :
                                   or_match(imp_re1(ftext[p][x]), imp_re2(ftext[p][x])).ok}} :
                    m \in stem_keys(files)}}

py_import_edges(files, r) ==
    SortEdges({e \in UNION {py_file_edges(p, files, r) : p \in read_ok(files)} : e[1] # e[2]})

\* the edges one JS/TS file adds
js_file_edges(p, files, r) ==
    {<<slug_for_mermaid(p, r), slug_for_mermaid(stem_lookup(files, base), r)>> :
        base \in {b \in {path_stem(or_match(import_re(ftext[p][l]), require_re(ftext[p][l])).g) :
                           l \in {x \in 1..Len(ftext[p]) :
                                    or_match(import_re(ftext[p][x]), require_re(ftext[p][x])).ok}} :
                     b \in stem_keys(files)}}

js_import_edges(files, r) ==
    SortEdges({e \in UNION {js_file_edges(p, files, r) : p \in read_ok(files)} : e[1] # e[2]})

---------------------------------------------------------------------------
(* gen_docs.py: mermaid_graph, write_markdown.  The document is the list  *)
(* of its lines; a list element that ends in "\n" leaves an empty line.   *)

Line(tag, lang, s, t, n) == [tag |-> tag, lang |-> lang, s |-> s, t |-> t, n |-> n]

Blank == Line("blank", "", <<>>, <<>>, 0)

mermaid_graph(edges, title) ==
    IF edges = <<>>
    THEN << Line("fence_open", title, <<>>, <<>>, 0), Line("graph_lr", title, <<>>, <<>>, 0),
            Line("no_edges", title, <<>>, <<>>, 0), Line("fence_close", title, <<>>, <<>>, 0),
            Blank >>
    ELSE << Line("fence_open", title, <<>>, <<>>, 0), Line("graph_lr", title, <<>>, <<>>, 0) >>
         \o [i \in 1..Len(edges) |-> Line("edge", title, edges[i][1], edges[i][2], 0)]
         \o << Line("fence_close", title, <<>>, <<>>, 0), Blank >>

\* the "- lang: count" bullets, in table order
summary_lines(bk) == [i \in 1..Len(LangOrder) |-> Line("count", LangOrder[i], <<>>, <<>>, Len(bk[LangOrder[i]]))]

\* one language's file listing
listing(lang, files, r) ==
    << Line("h2_files", lang, <<>>, <<>>, 0) >>
    \o (IF files = <<>> THEN << Line("none", lang, <<>>, <<>>, 0) >>
        ELSE [i \in 1..Len(files) |-> Line("file", lang, join_slash(relative_to(files[i], r)), <<>>, 0)])
    \o << Blank >>

RECURSIVE listings_from(_, _, _)
listings_from(k, bk, r) ==
    IF k > Len(LangOrder) THEN <<>>
    ELSE listing(LangOrder[k], bk[LangOrder[k]], r) \o listings_from(k + 1, bk, r)

\* `if readme_line:` is false for None and for the empty string
truthy(line) == line # None /\ line # <<>>

\* the list `lines` that write_markdown joins and writes
write_markdown_lines(r, bk, rl, pe, je) ==
    << Line("title", "", <<>>, <<>>, 0), Blank,
       Line("scanned_root", "", <<"/">> \o join_slash(r), <<>>, 0), Blank,
       Line("h2_summary", "", <<>>, <<>>, 0), Blank >>
    \o summary_lines(bk)
    \o << Blank >>
    \o (IF truthy(rl)
        THEN << Line("h2_readme", "", <<>>, <<>>, 0), Blank, Line("quote", "", rl, <<>>, 0), Blank >>
        ELSE <<>>)
    \o (IF pe # <<>>
        THEN << Line("h2_graph", "Python", <<>>, <<>>, 0), Blank >> \o mermaid_graph(pe, "Python")
        ELSE <<>>)
    \o (IF je # <<>>
        THEN << Line("h2_graph", "JS/TS", <<>>, <<>>, 0), Blank >> \o mermaid_graph(je, "JS/TS")
        ELSE <<>>)
    \o listings_from(1, bk, r)

---------------------------------------------------------------------------
(* Values and files shared by the specifications *)

H == <<"h">>
P == <<"p">>

\* a path string: "" (empty), a relative path or an absolute one
PathStr(kind, parts) == [kind |-> kind, parts |-> parts]
EmptyStr == PathStr("empty", <<>>)
Dot == PathStr("rel", <<>>)

\* Path(s).resolve() under working directory c
resolve(s, c) == IF s.kind = "abs" THEN s.parts ELSE c \o s.parts

NoFile == [exists |-> FALSE, data |-> <<>>]
File(d) == [exists |-> TRUE, data |-> d]

\* out_md = Path("outputs") / "docs.md", under working directory c
out_md(c) == c \o <<<<"o","u","t","p","u","t","s">>, <<"d","o","c","s",".","m","d">>>>

\* PurePath.with_suffix(suf) of a final component
with_suffix(name, suf) == stem(name) \o suf

\* tmp_path that names the target itself
tmp_path_in_place(path) == path

\* tmp = path.with_suffix(path.suffix + ".tmp")
tmp_path(path) ==
    SubSeq(path, 1, Len(path) - 1)
    \o <<with_suffix(basename(path), suffix(basename(path)) \o <<".","t","m","p">>)>>

FilePaths == {out_md(<<H>>), out_md(<<P>>), tmp_path(out_md(<<P>>))}

\* st_size of a file, counted in lines
st_size(f) == Len(docs[f].data)

NoResult == [ok |-> FALSE, root |-> <<>>, docs_path |-> <<>>, exists |-> FALSE,
             size_bytes |-> 0, error |-> "unset"]

NotRead == [read |-> FALSE, file |-> NoFile]

IdleGen ==
    /\ entry = "none"
    /\ argv = <<>>
    /\ root_arg = Dot
    /\ cwd = <<H>>
    /\ cwd0 = <<H>>
    /\ saved_cwd = <<>>
    /\ root_path = <<>>
    /\ readme_line = None
    /\ py_edges = <<>>
    /\ js_edges = <<>>
    /\ result = NoResult
    /\ error = ""

IdleCcg ==
    /\ g_nodes = {}
    /\ g_edges = {}
    /\ meta = [files_analyzed |-> 0, functions |-> 0, classes |-> 0]
    /\ todo = {}

IdleIo ==
    /\ docs = [f \in FilePaths |-> NoFile]
    /\ docs0 = docs
    /\ w_path = <<>>
    /\ w_lines = <<>>
    /\ written = 0
    /\ observed = NotRead
    /\ calls = 0

---------------------------------------------------------------------------
(* gen_docs.main and gen_bridge.run_gen, step by step *)

\* lines that one flush of the file buffer carries
ChunkLines == 8

\* an exception leaves main: a traceback for the command line, the except
\* clause for run_gen
raise_to == IF entry = "main" THEN "traceback" ELSE "rg_except"

\* root = root or "."; root_path = Path(root).resolve(); cwd = Path.cwd()
RgEnter ==
    /\ pc = "rg_call"
    /\ root_path' = resolve(IF root_arg.kind = "empty" THEN Dot ELSE root_arg, cwd)
    /\ saved_cwd' = cwd
    /\ pc' = "rg_chdir"
    /\ UNCHANGED <<envVars, ccgVars, scanVars, entry, argv, root_arg, cwd, cwd0, readme_line,
                   py_edges, js_edges, result, error, ioVars>>

\* os.chdir(root_path)
RgChdir ==
    /\ pc = "rg_chdir"
    /\ root_path \in Dirs
    /\ cwd' = root_path
    /\ pc' = "rg_import"
    /\ UNCHANGED <<envVars, ccgVars, scanVars, entry, argv, root_arg, cwd0, saved_cwd, root_path,
                   readme_line, py_edges, js_edges, result, error, ioVars>>

\* os.chdir raises: the directory does not exist
RgChdirFails ==
    /\ pc = "rg_chdir"
    /\ root_path \notin Dirs
    /\ error' = "chdir"
    /\ pc' = "rg_except"
    /\ UNCHANGED <<envVars, ccgVars, scanVars, genVars, ioVars>>

\* import gen_docs
RgImport ==
    /\ pc = "rg_import"
    /\ pc' = "m_start"
    /\ UNCHANGED <<envVars, ccgVars, scanVars, genVars, error, ioVars>>

\* import gen_docs raises: the module is not on the path
RgImportFails ==
    /\ pc = "rg_import"
    /\ error' = "import"
    /\ pc' = "rg_except"
    /\ UNCHANGED <<envVars, ccgVars, scanVars, genVars, ioVars>>

\* root = Path(sys.argv[1]) if len(sys.argv) > 1 else Path("."); find_by_lang
MainScan ==
    /\ pc = "m_start"
    /\ root' = resolve(IF Len(argv) > 0 THEN argv[1] ELSE Dot, cwd)
    /\ buckets' = find_by_lang(root')
    /\ pc' = "m_readme"
    /\ UNCHANGED <<envVars, ccgVars, genVars, error, ioVars>>

\* readme_line = read_readme(root)
MainReadme ==
    /\ pc = "m_readme"
    /\ ~read_readme(root).raised
    /\ readme_line' = read_readme(root).value
    /\ pc' = "m_edges"
    /\ UNCHANGED <<envVars, ccgVars, scanVars, entry, argv, root_arg, cwd, cwd0, saved_cwd, root_path,
                   py_edges, js_edges, result, error, ioVars>>

\* read_readme lets the exception of read_text through
MainReadmeRaises ==
    /\ pc = "m_readme"
    /\ read_readme(root).raised
    /\ error' = "read_readme"
    /\ pc' = raise_to
    /\ UNCHANGED <<envVars, ccgVars, scanVars, genVars, ioVars>>

\* the dependency edges of the two families that have a detector
MainEdges ==
    /\ pc = "m_edges"
    /\ py_edges' = IF buckets["Python"] # <<>>
                   THEN py_import_edges(buckets["Python"], root) ELSE <<>>
    /\ js_edges' = IF buckets["JavaScript/TypeScript"] # <<>>
                   THEN js_import_edges(buckets["JavaScript/TypeScript"], root) ELSE <<>>
    /\ pc' = "m_render"
    /\ UNCHANGED <<envVars, ccgVars, scanVars, entry, argv, root_arg, cwd, cwd0, saved_cwd, root_path,
                   readme_line, result, error, ioVars>>

\* write_markdown up to out_md.parent.mkdir(parents=True, exist_ok=True)
WmRender ==
    /\ pc = "m_render"
    /\ w_path' = out_md(cwd)
    /\ w_lines' = write_markdown_lines(root, buckets, readme_line, py_edges, js_edges)
    /\ written' = 0
    /\ pc' = "wm_open"
    /\ UNCHANGED <<envVars, ccgVars, scanVars, genVars, error, docs, docs0, observed, calls>>

\* mkdir raises: the working directory cannot be written
WmMkdirFails ==
    /\ pc = "m_render"
    /\ error' = "mkdir"
    /\ pc' = raise_to
    /\ UNCHANGED <<envVars, ccgVars, scanVars, genVars, ioVars>>

\* out_md.write_text: open(out_md, "w") creates or truncates the file itself
WmOpen ==
    /\ pc = "wm_open"
    /\ docs' = [docs EXCEPT ![w_path] = File(<<>>)]
    /\ pc' = "wm_write"
    /\ UNCHANGED <<envVars, ccgVars, scanVars, genVars, error, docs0, w_path, w_lines, written,
                   observed, calls>>

\* open raises: the file cannot be opened for writing
WmOpenFails ==
    /\ pc = "wm_open"
    /\ error' = "open"
    /\ pc' = raise_to
    /\ UNCHANGED <<envVars, ccgVars, scanVars, genVars, ioVars>>

\* the lines reach the file a buffer at a time
flush(f) ==
    /\ written < Len(w_lines)
    /\ written' = IF written + ChunkLines < Len(w_lines)
                  THEN written + ChunkLines ELSE Len(w_lines)
    /\ docs' = [docs EXCEPT ![f] = File(SubSeq(w_lines, 1, written'))]

WmWrite ==
    /\ pc = "wm_write"
    /\ flush(w_path)
    /\ UNCHANGED <<envVars, ccgVars, pc, scanVars, genVars, error, docs0, w_path, w_lines,
                   observed, calls>>

\* a write raises (disk full, interrupted): what was flushed stays
WmWriteFails ==
    /\ pc = "wm_write"
    /\ written < Len(w_lines)
    /\ error' = "write"
    /\ pc' = raise_to
    /\ UNCHANGED <<envVars, ccgVars, scanVars, genVars, ioVars>>

\* the file is closed, main prints its summary and returns
MainFinish ==
    /\ pc = "wm_write"
    /\ written = Len(w_lines)
    /\ pc' = IF entry = "main" THEN "exit0" ELSE "rg_return"
    /\ UNCHANGED <<envVars, ccgVars, scanVars, genVars, error, ioVars>>

\* the dict of the try block
RgReturn ==
    /\ pc = "rg_return"
    /\ result' = [ok |-> TRUE, root |-> root_path, docs_path |-> out_md(root_path),
                  exists |-> docs[out_md(root_path)].exists,
                  size_bytes |-> IF docs[out_md(root_path)].exists
                                 THEN st_size(out_md(root_path)) ELSE 0,
                  error |-> ""]
    /\ pc' = "rg_finally"
    /\ UNCHANGED <<envVars, ccgVars, scanVars, entry, argv, root_arg, cwd, cwd0, saved_cwd, root_path,
                   readme_line, py_edges, js_edges, error, ioVars>>

\* except Exception as e: the failure dict
RgExcept ==
    /\ pc = "rg_except"
    /\ result' = [ok |-> FALSE, root |-> root_path, docs_path |-> <<>>, exists |-> FALSE,
                  size_bytes |-> 0, error |-> error]
    /\ pc' = "rg_finally"
    /\ UNCHANGED <<envVars, ccgVars, scanVars, entry, argv, root_arg, cwd, cwd0, saved_cwd, root_path,
                   readme_line, py_edges, js_edges, error, ioVars>>

\* RgFinally with the chdir back on the success path only
RgFinally_SuccessOnly ==
    /\ pc = "rg_finally"
    /\ cwd' = IF result.ok THEN saved_cwd ELSE cwd
    /\ pc' = "returned"
    /\ UNCHANGED <<envVars, ccgVars, scanVars, entry, argv, root_arg, cwd0, saved_cwd, root_path,
                   readme_line, py_edges, js_edges, result, error, ioVars>>

\* finally: os.chdir(cwd)
RgFinally ==
    /\ pc = "rg_finally"
    /\ cwd' = saved_cwd
    /\ pc' = "returned"
    /\ UNCHANGED <<envVars, ccgVars, scanVars, entry, argv, root_arg, cwd0, saved_cwd, root_path,
                   readme_line, py_edges, js_edges, result, error, ioVars>>

---------------------------------------------------------------------------
(* Specification SpecGen: one call of an entry point on a drawn tree *)

A_PY == <<P, <<"a",".","p","y">>>>
B_PY == <<P, <<"b",".","p","y">>>>
M_JS == <<P, <<"w">>, <<"m",".","j","s">>>>
K_JS == <<P, <<"w">>, <<"k",".","j","s","x">>>>
N_TS == <<P, <<"w">>, <<"n",".","t","s">>>>
README_MD == <<P, <<"R","E","A","D","M","E",".","m","d">>>>
README_2 == <<P, <<"R","E","A","D","M","E">>>>

\* the text of each file of the drawn trees
GenText(p, files) ==
    CASE p = A_PY -> << <<"i","m","p","o","r","t"," ","b">> >>
      [] p = B_PY -> << <<"#"," ","h","e","l","p","e","r">>, <<"f","r","o","m"," ","a"," ","i","m","p","o","r","t"," ","f">> >>
      [] p = M_JS -> << <<"i","m","p","o","r","t"," ","n"," ","f","r","o","m"," ","'",".","/","n","'">> >>
      [] p = K_JS -> << <<"c","o","n","s","t"," ","z"," ","="," ","r","e","q","u","i","r","e","(","'",".","/","z","e","d","'",")">> >>
      [] p = README_MD -> IF README_2 \in files THEN << <<>>, <<" "," ">> >> ELSE << <<"#"," ","T","i","t","l","e">> >>
      [] p = README_2 -> << <<"P","r","o","j">> >>
      [] OTHER -> <<>>

JsChoices == { {}, {M_JS, N_TS}, {K_JS} }

\* the README of the tree: [files, dirs, locked]
ReadmeChoices == {
    [files |-> {}, dirs |-> {}, locked |-> {}],
    [files |-> {README_MD}, dirs |-> {}, locked |-> {}],
    [files |-> {README_MD, README_2}, dirs |-> {}, locked |-> {}],
    [files |-> {README_MD}, dirs |-> {}, locked |-> {README_MD}],
    [files |-> {}, dirs |-> {README_MD}, locked |-> {}] }

AbsP == PathStr("abs", <<P>>)
AbsGone == PathStr("abs", <<<<"g","o","n","e">>>>)
RelW == PathStr("rel", <<<<"w">>>>)

\* an artifact left by an earlier run
OldDoc == << Line("title", "", <<>>, <<>>, 0), Line("file", "Go", <<"o","l","d",".","g","o">>, <<>>, 0) >>

GenInit ==
    /\ \E py \in SUBSET {A_PY, B_PY}, js \in JsChoices, rd \in ReadmeChoices :
          /\ fileset = py \cup js \cup rd.files
          /\ dirset = {<<H>>, <<P>>} \cup rd.dirs
          /\ \E locked \in SUBSET py : unreadable = locked \cup rd.locked
    /\ denied \in {{}, {<<P>>}}
    /\ ftext = [p \in fileset |-> GenText(p, fileset)]
    /\ IdleCcg
    /\ \/ /\ entry = "main"
          /\ argv \in {<<>>, <<AbsP>>, <<AbsGone>>}
          /\ root_arg = Dot
          /\ pc = "m_start"
       \/ /\ entry = "run_gen"
          /\ argv \in {<<>>, <<RelW>>}
          /\ root_arg \in {EmptyStr, AbsP, AbsGone}
          /\ pc = "rg_call"
    /\ root = <<>>
    /\ buckets = EmptyBuckets
    /\ cwd = <<H>>
    /\ cwd0 = cwd
    /\ saved_cwd = <<>>
    /\ root_path = <<>>
    /\ readme_line = None
    /\ py_edges = <<>>
    /\ js_edges = <<>>
    /\ result = NoResult
    /\ error = ""
    /\ \/ docs = [f \in FilePaths |-> NoFile]
       \/ docs = [f \in FilePaths |-> IF f = tmp_path(out_md(<<P>>)) THEN NoFile ELSE File(OldDoc)]
    /\ docs0 = docs
    /\ w_path = <<>>
    /\ w_lines = <<>>
    /\ written = 0
    /\ observed = NotRead
    /\ calls = 0

GenNext ==
    \/ RgEnter \/ RgChdir \/ RgChdirFails \/ RgImport \/ RgImportFails
    \/ MainScan \/ MainReadme \/ MainReadmeRaises \/ MainEdges
    \/ WmRender \/ WmMkdirFails \/ WmOpen \/ WmOpenFails \/ WmWrite \/ WmWriteFails
    \/ MainFinish \/ RgReturn \/ RgExcept \/ RgFinally

SpecGen == GenInit /\ [][GenNext]_vars

---------------------------------------------------------------------------
(* simple_fs.write_text, step by step, with a concurrent reader *)

\* write_text calls made in one behaviour
MaxCalls == 2

Content(tag, n) == [i \in 1..n |-> Line("text", tag, <<>>, <<>>, i)]

ContentChoices == {Content(tag, n) : tag \in {"x", "y"}, n \in {0, 3, 10, 17}}

\* write_text(path, content) is called
WtCall ==
    /\ pc \in {"wt_idle", "wt_done", "wt_raised"}
    /\ calls < MaxCalls
    /\ calls' = calls + 1
    /\ w_path' = out_md(<<P>>)
    /\ w_lines' \in ContentChoices
    /\ written' = 0
    /\ docs0' = docs
    /\ observed' = NotRead
    /\ error' = ""
    /\ pc' = "wt_mkdir"
    /\ UNCHANGED <<envVars, ccgVars, scanVars, genVars, docs>>

\* path.parent.mkdir(parents=True, exist_ok=True)
WtMkdir ==
    /\ pc = "wt_mkdir"
    /\ pc' = "wt_open"
    /\ UNCHANGED <<envVars, ccgVars, scanVars, genVars, error, ioVars>>

WtMkdirFails ==
    /\ pc = "wt_mkdir"
    /\ error' = "mkdir"
    /\ pc' = "wt_raised"
    /\ UNCHANGED <<envVars, ccgVars, scanVars, genVars, ioVars>>

\* tmp.write_text: open(tmp, "w") creates or truncates the temporary file
WtOpenTmp ==
    /\ pc = "wt_open"
    /\ docs' = [docs EXCEPT ![tmp_path(w_path)] = File(<<>>)]
    /\ pc' = "wt_write"
    /\ UNCHANGED <<envVars, ccgVars, scanVars, genVars, error, docs0, w_path, w_lines, written,
                   observed, calls>>

WtOpenTmpFails ==
    /\ pc = "wt_open"
    /\ error' = "open"
    /\ pc' = "wt_raised"
    /\ UNCHANGED <<envVars, ccgVars, scanVars, genVars, ioVars>>

WtWriteTmp ==
    /\ pc = "wt_write"
    /\ flush(tmp_path(w_path))
    /\ UNCHANGED <<envVars, ccgVars, pc, scanVars, genVars, error, docs0, w_path, w_lines,
                   observed, calls>>

WtWriteTmpFails ==
    /\ pc = "wt_write"
    /\ written < Len(w_lines)
    /\ error' = "write"
    /\ pc' = "wt_raised"
    /\ UNCHANGED <<envVars, ccgVars, scanVars, genVars, ioVars>>

\* os.replace(a, b): the rename is one step; renaming a file onto itself
\* changes nothing
rename(a, b) ==
    IF a = b THEN docs ELSE [docs EXCEPT ![b] = docs[a], ![a] = NoFile]

\* tmp.replace(path), after the temporary file is closed
WtReplace ==
    /\ pc = "wt_write"
    /\ written = Len(w_lines)
    /\ docs' = rename(tmp_path(w_path), w_path)
    /\ pc' = "wt_done"
    /\ UNCHANGED <<envVars, ccgVars, scanVars, genVars, error, docs0, w_path, w_lines, written,
                   observed, calls>>

WtReplaceFails ==
    /\ pc = "wt_write"
    /\ written = Len(w_lines)
    /\ error' = "replace"
    /\ pc' = "wt_raised"
    /\ UNCHANGED <<envVars, ccgVars, scanVars, genVars, ioVars>>

\* another process reads the file at path while the call runs
ReaderRead ==
    /\ pc \in {"wt_mkdir", "wt_open", "wt_write", "wt_done", "wt_raised"}
    /\ observed' = [read |-> TRUE, file |-> docs[w_path]]
    /\ UNCHANGED <<envVars, ccgVars, pc, scanVars, genVars, error, docs, docs0, w_path, w_lines,
                   written, calls>>

FsInit ==
    /\ fileset = {}
    /\ dirset = {<<H>>, <<P>>}
    /\ denied = {}
    /\ ftext = [p \in fileset |-> <<>>]
    /\ unreadable = {}
    /\ IdleCcg
    /\ root = <<>>
    /\ buckets = EmptyBuckets
    /\ IdleGen
    /\ \E old \in {NoFile} \cup {File(c) : c \in ContentChoices},
          stale \in {NoFile, File(Content("x", 3))} :
          docs = [f \in FilePaths |->
                    IF f = out_md(<<P>>) THEN old
                    ELSE IF f = tmp_path(out_md(<<P>>)) THEN stale ELSE NoFile]
    /\ docs0 = docs
    /\ w_path = out_md(<<P>>)
    /\ w_lines = <<>>
    /\ written = 0
    /\ observed = NotRead
    /\ calls = 0
    /\ pc = "wt_idle"

FsNext ==
    \/ WtCall \/ WtMkdir \/ WtMkdirFails \/ WtOpenTmp \/ WtOpenTmpFails
    \/ WtWriteTmp \/ WtWriteTmpFails \/ WtReplace \/ WtReplaceFails \/ ReaderRead

SpecFS == FsInit /\ [][FsNext]_vars

---------------------------------------------------------------------------
(* py/parser.py: build_ccg *)

\* str.endswith(tail)
endswith(s, tail) ==
    /\ Len(tail) <= Len(s)
    /\ SubSeq(s, Len(s) - Len(tail) + 1, Len(s)) = tail

\* Path(src_root).rglob("*.py"): every file below the root whose name ends in .py
rglob_py(r) ==
    {p \in fileset : IsPrefix(r, p) /\ Len(p) > Len(r) /\ endswith(basename(p), <<".","p","y">>)}

\* the class [a-zA-Z_]
isidstart(c) == isupper(c) \/ islower(c) \/ c = "_"

\* ^\s*def\s+([a-zA-Z_]\w*)\s*\( on one line
def_re(line) ==
    LET a == span_end(Spaces, line, 1)
        b == a + 3
        c == span_end(Spaces, line, b)
        e == span_end(WordChars, line, c)
        f == span_end(Spaces, line, e)
    IN  IF /\ has_at(line, a, <<"d","e","f">>) /\ c > b /\ c <= Len(line) /\ isidstart(line[c])
           /\ f <= Len(line) /\ line[f] = "("
        THEN [ok |-> TRUE, g |-> SubSeq(line, c, e - 1)]
        ELSE NoMatch

\* ^\s*class\s+([a-zA-Z_]\w*)\s*(\(|:) on one line
class_re(line) ==
    LET a == span_end(Spaces, line, 1)
        b == a + 5
        c == span_end(Spaces, line, b)
        e == span_end(WordChars, line, c)
        f == span_end(Spaces, line, e)
    IN  IF /\ has_at(line, a, <<"c","l","a","s","s">>) /\ c > b /\ c <= Len(line) /\ isidstart(line[c])
           /\ f <= Len(line) /\ line[f] \in {"(", ":"}
        THEN [ok |-> TRUE, g |-> SubSeq(line, c, e - 1)]
        ELSE NoMatch

RECURSIVE funcs_in(_)
\* re.findall of the def pattern with re.M: the captured names, line by line
funcs_in(text) ==
    IF text = <<>> THEN <<>>
    ELSE (IF def_re(text[1]).ok THEN <<def_re(text[1]).g>> ELSE <<>>) \o funcs_in(Tail(text))

RECURSIVE clss_in(_)
\* re.findall of the class pattern with re.M
clss_in(text) ==
    IF text = <<>> THEN <<>>
    ELSE (IF class_re(text[1]).ok THEN <<class_re(text[1]).g>> ELSE <<>>) \o clss_in(Tail(text))

\* the pattern rf'\\b{callee}\\s*\\(' after formatting: in a raw string the
\* doubled backslashes stay doubled
call_pattern(callee) ==
    <<"BSLASH", "BSLASH", "b">> \o callee
    \o <<"BSLASH", "BSLASH", "s", "*", "BSLASH", "BSLASH", "(">>

RECURSIVE open_groups(_, _, _)
\* the regex parser's group count at the end of the pattern from index i on,
\* -1 for a ")" with no group open or an escape at the end of the pattern
open_groups(pat, i, open) ==
    IF i > Len(pat) THEN open
    ELSE IF pat[i] = "BSLASH"
         THEN (IF i = Len(pat) THEN -1 ELSE open_groups(pat, i + 2, open))
    ELSE IF pat[i] = "(" THEN open_groups(pat, i + 1, open + 1)
    ELSE IF pat[i] = ")"
         THEN (IF open = 0 THEN -1 ELSE open_groups(pat, i + 1, open - 1))
    ELSE open_groups(pat, i + 1, open)

\* re.search(pattern, text) raises re.error: the pattern does not compile
re_error(pat) == open_groups(pat, 1, 0) # 0

\* the pair loop reaches re.search for the first caller != callee
pair_loop_raises(funcs) ==
    \E i, j \in 1..Len(funcs) : funcs[i] # funcs[j] /\ re_error(call_pattern(funcs[j]))

\* g.add_node for the symbols of one file: a node added again keeps its
\* identity and takes the new attributes
add_nodes(nodes, kind, names, file) ==
    {n \in nodes : ~(n.kind = kind /\ \E i \in 1..Len(names) : names[i] = n.name)}
    \cup {[kind |-> kind, name |-> names[i], file |-> file] : i \in 1..Len(names)}

\* _ensure_langs, the Language and the Parser are set up; rglob starts
CcgSetup ==
    /\ pc = "ccg_call"
    /\ todo' = rglob_py(root)
    /\ pc' = "ccg_loop"
    /\ UNCHANGED <<envVars, g_nodes, g_edges, meta, scanVars, genVars, error, ioVars>>

\* the grammar library cannot be built or loaded
CcgSetupFails ==
    /\ pc = "ccg_call"
    /\ error' = "ensure_langs"
    /\ pc' = "ccg_raised"
    /\ UNCHANGED <<envVars, ccgVars, scanVars, genVars, ioVars>>

\* one iteration of `for p in Path(src_root).rglob("*.py")`, in the order the
\* directory scan happens to yield
CcgFile ==
    /\ pc = "ccg_loop"
    /\ \E p \in todo :
          LET funcs == funcs_in(ftext[p])
              clss == clss_in(ftext[p])
          IN  IF p \in unreadable
              THEN /\ error' = "read_bytes"
                   /\ pc' = "ccg_raised"
                   /\ UNCHANGED <<ccgVars>>
              ELSE /\ todo' = todo \ {p}
                   /\ g_nodes' = add_nodes(add_nodes(g_nodes, "func", funcs, p), "class", clss, p)
                   /\ meta' = [files_analyzed |-> meta.files_analyzed + 1,
                               functions |-> meta.functions + Len(funcs),
                               classes |-> meta.classes + Len(clss)]
                   /\ IF pair_loop_raises(funcs)
                      THEN error' = "re.error" /\ pc' = "ccg_raised"
                      ELSE error' = error /\ pc' = pc
                   \* add_edge is reached only after re.search returned a match,
                   \* and re.search is only called on call_pattern
                   /\ g_edges' = g_edges
    /\ UNCHANGED <<envVars, scanVars, genVars, ioVars>>

\* return g, meta
CcgReturn ==
    /\ pc = "ccg_loop"
    /\ todo = {}
    /\ pc' = "ccg_done"
    /\ UNCHANGED <<envVars, ccgVars, scanVars, genVars, error, ioVars>>

---------------------------------------------------------------------------
(* Specification SpecCCG: build_ccg on a drawn set of Python files *)

C_PY == <<P, <<"p","k","g">>, <<"c",".","p","y">>>>

CcgTexts == {
    << <<"d","e","f"," ","f","(",")",":"," ","p","a","s","s">> >>,
    << <<"d","e","f"," ","g","(",")",":">>, <<" "," "," "," ","f","(",")">> >>,
    << <<"d","e","f"," ","f","(",")",":">>, <<" "," "," "," ","r","e","t","u","r","n"," ","1">>, <<"d","e","f"," ","h","(",")",":">>, <<" "," "," "," ","r","e","t","u","r","n"," ","f","(",")">> >>,
    << <<"c","l","a","s","s"," ","C",":">>, <<" "," "," "," ","d","e","f"," ","f","(","s","e","l","f",")",":">>, <<" "," "," "," "," "," "," "," ","p","a","s","s">> >>,
    << <<"d","e","f"," ","f","(",")",":"," ","p","a","s","s">>, <<"d","e","f"," ","f","(",")",":"," ","p","a","s","s">> >> }

CcgInit ==
    /\ fileset \in SUBSET {A_PY, B_PY, C_PY}
    /\ dirset = {<<H>>, <<P>>}
    /\ denied = {}
    /\ ftext \in [fileset -> CcgTexts]
    /\ unreadable \in {{}, {C_PY} \cap fileset}
    /\ IdleCcg
    /\ root = <<P>>
    /\ buckets = EmptyBuckets
    /\ IdleGen
    /\ IdleIo
    /\ pc = "ccg_call"

CcgNext == CcgSetup \/ CcgSetupFails \/ CcgFile \/ CcgReturn

SpecCCG == CcgInit /\ [][CcgNext]_vars

---------------------------------------------------------------------------
(* Specification SpecWalk: find_by_lang applied to a drawn tree and root *)

WalkCandidates == {
    <<P, <<"a",".","p","y">>>>,
    <<P, <<"s","r","c">>, <<"B",".","P","Y">>>>,
    <<P, <<"s","r","c">>, <<".","e",".","p","y">>>>,
    <<P, <<"n","o","d","e","_","m","o","d","u","l","e","s">>, <<"m",".","j","s">>>>,
    <<P, <<"s","r","c">>, <<"n","o","d","e","_","m","o","d","u","l","e","s">>, <<"k">>, <<"x",".","p","y">>>>,
    <<P, <<".","g","i","t">>, <<"h",".","p","y">>>>,
    <<P, <<"s","r","c">>, <<".","x">>, <<"y",".","g","o">>>>,
    <<P, <<"o","u","t">>, <<"z",".","r","s">>>>,
    <<P, <<"l","i","b">>, <<"n","o","t","e","s",".","t","x","t">>>> }

WalkRoots == {
    <<P>>, <<P, <<"s","r","c">>>>, <<P, <<"n","o","d","e","_","m","o","d","u","l","e","s">>>>, <<P, <<"s","r","c">>, <<".","x">>>>, <<<<"g","o","n","e">>>> }

WalkInit ==
    /\ fileset \in SUBSET WalkCandidates
    /\ dirset = {}
    /\ denied \in {{}, {<<P, <<"s","r","c">>>>}}
    /\ ftext = [p \in fileset |-> <<>>]
    /\ unreadable = {}
    /\ root \in WalkRoots
    /\ pc = "walk"
    /\ buckets = EmptyBuckets
    /\ IdleCcg
    /\ IdleGen
    /\ IdleIo

FindByLang ==
    /\ pc = "walk"
    /\ buckets' = find_by_lang(root)
    /\ pc' = "walked"
    /\ UNCHANGED <<envVars, ccgVars, root, genVars, error, ioVars>>

WalkNext == FindByLang

SpecWalk == WalkInit /\ [][WalkNext]_vars

---------------------------------------------------------------------------
(* Properties *)

\* the lines of a document that carry a tag
tagged(doc, tag) == {doc[i] : i \in {k \in 1..Len(doc) : doc[k].tag = tag}}

\* the path an entry point is asked to scan, seen from the caller
asked_root ==
    IF entry = "main" THEN resolve(IF Len(argv) > 0 THEN argv[1] ELSE Dot, cwd0)
    ELSE resolve(IF root_arg.kind = "empty" THEN Dot ELSE root_arg, cwd0)

\* main's edge step has run
EdgesComputed ==
    \/ pc \in {"m_render", "wm_open", "wm_write", "exit0", "rg_return"}
    \/ (pc \in {"traceback", "rg_except", "rg_finally", "returned"}
        /\ error \in {"", "mkdir", "open", "write"})

\* write_markdown has rendered the document
Rendered == w_path # <<>>

\* C1: during and after the render step the output path holds either the
\* complete previous artifact or the complete new one, also when the write
\* fails part-way.
C1_ReportWriteAtomic ==
    (entry \in {"main", "run_gen"} /\ Rendered) =>
        (docs[w_path] = docs0[w_path] \/ docs[w_path] = File(w_lines))

\* C2: a root that does not exist or cannot be read makes the call fail
\* (main does not exit normally, run_gen returns ok = False) and leaves every
\* output path as it was.
C2_MissingRootFails ==
    (entry \in {"main", "run_gen"} /\ (asked_root \notin Dirs \/ asked_root \in denied)) =>
        /\ pc # "exit0"
        /\ (pc = "returned" => ~result.ok)
        /\ docs = docs0

\* C3: a run_gen result with ok = True means the artifact under the resolved
\* root describes that root (its scanned-root line and its counts), exists,
\* and has the reported size, whatever the command-line arguments are.
C3_RunGenScansItsRoot ==
    (pc = "returned" /\ result.ok) =>
        LET f == out_md(root_path)
        IN  /\ result.exists /\ docs[f].exists
            /\ result.size_bytes = Len(docs[f].data)
            /\ \E l \in tagged(docs[f].data, "scanned_root") : l.s = <<"/">> \o join_slash(root_path)
            /\ \A l \in tagged(docs[f].data, "count") : l.n = Len(find_by_lang(root_path)[l.lang])

\* C4: the rendered artifact always holds the diagram section of both graph
\* families: every edge listed when there are edges, the "no edges detected"
\* placeholder when there are none.
C4_DiagramSectionAlwaysPresent ==
    (entry \in {"main", "run_gen"} /\ Rendered) =>
        \A fam \in {"Python", "JS/TS"} :
            LET edges == IF fam = "Python" THEN py_edges ELSE js_edges
            IN  /\ \E l \in tagged(w_lines, "h2_graph") : l.lang = fam
                /\ \A i \in 1..Len(edges) :
                      \E l \in tagged(w_lines, "edge") :
                          l.lang = fam /\ l.s = edges[i][1] /\ l.t = edges[i][2]
                /\ (edges = <<>> => \E l \in tagged(w_lines, "no_edges") : l.lang = fam)

\* \bNAME\s*\( somewhere in a text
CallShaped(name, text) ==
    \E l \in 1..Len(text) : \E i \in 1..Len(text[l]) :
        /\ has_at(text[l], i, name)
        /\ (i = 1 \/ ~isword(text[l][i - 1]))
        /\ span_end(Spaces, text[l], i + Len(name)) <= Len(text[l])
        /\ text[l][span_end(Spaces, text[l], i + Len(name))] = "("

\* C5: when build_ccg completes, for every ordered pair of distinct function
\* symbols of the file set there is a calls edge caller -> callee exactly
\* when the callee's name appears call-shaped in a file that declares the
\* caller.
C5_CallEdgesAcrossBucket ==
    pc = "ccg_done" =>
        \A a, b \in {n \in g_nodes : n.kind = "func"} :
            a.name # b.name =>
                (<<a.name, b.name>> \in g_edges
                 <=> \E p \in rglob_py(root) :
                        /\ \E i \in 1..Len(funcs_in(ftext[p])) :
                              funcs_in(ftext[p])[i] = a.name
                        /\ CallShaped(b.name, ftext[p]))

\* C6: read_readme never raises, so no call ends by its exception.
C6_ReadmeNeverRaises == error # "read_readme"

\* a directory name that the walker prunes
IgnoredName(x) == x \in IGNORES \/ (x # <<>> /\ x[1] = ".")

\* the files of all buckets
Bucketed == UNION {{buckets[lang][i] : i \in 1..Len(buckets[lang])} : lang \in Langs}

\* C7 as stated: no file beneath a directory with an ignored name, at any
\* depth and for any scan root, is in a bucket.
C7_NoFileBeneathIgnoredDir ==
    pc = "walked" =>
        \A p \in Bucketed : \A k \in 1..(Len(p) - 1) : ~IgnoredName(p[k])

\* C7 amended: no file beneath a directory with an ignored name that lies
\* below the scan root is in a bucket; the root's own name and its ancestors'
\* names are not tested.
C7_NoFileBeneathIgnoredDirBelowRoot ==
    pc = "walked" =>
        \A p \in Bucketed :
            /\ IsPrefix(root, p)
            /\ \A k \in (Len(root) + 1)..(Len(p) - 1) : ~IgnoredName(p[k])

C7_Witness ==
    /\ pc = "walked"
    /\ root = <<P>>
    /\ {<<P, <<"a",".","p","y">>>>, <<P, <<".","g","i","t">>, <<"h",".","p","y">>>>,
        <<P, <<"s","r","c">>, <<"n","o","d","e","_","m","o","d","u","l","e","s">>, <<"k">>, <<"x",".","p","y">>>>, <<P, <<"s","r","c">>, <<"B",".","P","Y">>>>} \subseteq fileset
    /\ denied = {}
    /\ Len(buckets["Python"]) = 2

\* the bucket files of the two graph families whose read raises
LockedIn(lang) == {buckets[lang][i] : i \in 1..Len(buckets[lang])} \cap unreadable

\* an unreadable bucket file is counted and listed in the rendered document
CountedAndListed(lang) ==
    \A p \in LockedIn(lang) :
        /\ \E l \in tagged(w_lines, "count") : l.lang = lang /\ l.n = Len(buckets[lang])
        /\ \E l \in tagged(w_lines, "file") :
              l.lang = lang /\ l.s = join_slash(relative_to(p, root))

\* every edge of the list was added while a readable file of the list was read
SourcesReadable(edges, lang) ==
    \A i \in 1..Len(edges) :
        \E p \in {buckets[lang][k] : k \in 1..Len(buckets[lang])} \ unreadable :
            slug_for_mermaid(p, root) = edges[i][1]

\* no edge of the list points at an unreadable file of the bucket
NoLockedDestination(edges, lang) ==
    \A i \in 1..Len(edges) : \A p \in LockedIn(lang) :
        slug_for_mermaid(p, root) # edges[i][2]

\* C8 as stated: an unreadable bucket file is counted and listed, and no edge
\* has it as its source or as its destination.
C8_UnreadableFileInNoEdge ==
    /\ EdgesComputed =>
          /\ SourcesReadable(py_edges, "Python")
          /\ SourcesReadable(js_edges, "JavaScript/TypeScript")
          /\ NoLockedDestination(py_edges, "Python")
          /\ NoLockedDestination(js_edges, "JavaScript/TypeScript")
    /\ (EdgesComputed /\ Rendered) =>
          CountedAndListed("Python") /\ CountedAndListed("JavaScript/TypeScript")

\* C8 amended: an unreadable bucket file is counted and listed, and no edge
\* is emitted from it: every edge's source is a readable file of the bucket.
\* It can still be the destination of another file's import.
C8_UnreadableFileEmitsNoEdge ==
    /\ EdgesComputed =>
          /\ SourcesReadable(py_edges, "Python")
          /\ SourcesReadable(js_edges, "JavaScript/TypeScript")
    /\ (EdgesComputed /\ Rendered) =>
          CountedAndListed("Python") /\ CountedAndListed("JavaScript/TypeScript")

C8_Witness ==
    /\ pc = "exit0"
    /\ root = <<P>>
    /\ {A_PY, B_PY} \subseteq fileset
    /\ unreadable = {B_PY}
    /\ denied = {}
    /\ py_edges = << <<<<"a","_","p","y">>, <<"b","_","p","y">>>> >>
    /\ docs[w_path] = File(w_lines)

\* C9: every read of path during a write_text call returns the complete
\* previous content (or absence) or the complete new content, and a failure
\* before the rename leaves the content at path unchanged.
C9_WriteTextAtomic ==
    pc \in {"wt_mkdir", "wt_open", "wt_write", "wt_done", "wt_raised"} =>
        /\ observed.read => observed.file \in {docs0[w_path], File(w_lines)}
        /\ pc = "wt_raised" => docs[w_path] = docs0[w_path]
        /\ pc = "wt_done" => docs[w_path] = File(w_lines)

C9_Witness ==
    /\ pc = "wt_raised"
    /\ error = "write"
    /\ written > 0
    /\ written < Len(w_lines)
    /\ docs[tmp_path(w_path)] = File(SubSeq(w_lines, 1, written))
    /\ docs0[w_path].exists
    /\ docs0[w_path].data # <<>>
    /\ docs0[w_path] # File(w_lines)
    /\ observed = [read |-> TRUE, file |-> docs0[w_path]]

====
